---- MODULE Spec2Model ----
(***************************************************************************)
(* A model of the knowledger store and of the operations of src/core.py    *)
(* and src/web_ui.py on it: ingestion (add_ibit), the manual edit, /addcat,*)
(* deletion, entity merging and the two quiz generators.                   *)
(*                                                                         *)
(* The relational schema is the one of src/database.py (global UNIQUE on   *)
(* categories.name, entities.name and dates.date, association tables       *)
(* without any key) after scripts/migrate_to_multitenancy.py has added the *)
(* nullable user_id columns.  Every handler runs in one session and ends   *)
(* in commit or rollback, so every handler is one atomic action.           *)
(***************************************************************************)
EXTENDS Integers, Sequences, FiniteSets, TLC

VARIABLES
    ibits,            \* table ibits:      id -> [user_id, text, source]
    categories,       \* table categories: id -> [name, user_id]
    entities,         \* table entities:   id -> [name, user_id, linked_to_id]
    dates,            \* table dates:      id -> [date, user_id]
    ibit_categories,  \* association rows, a bag: <<ibit_id, category_id>> -> count
    ibit_entities,    \* association rows, a bag: <<ibit_id, entity_id>> -> count
    ibit_dates,       \* association rows, a bag: <<ibit_id, date_id>> -> count
    quiz_progress,    \* table quiz_progress: user_id -> used_ibit_ids (a string)
    users,            \* table users: id -> telegram_user_id, linking_code
    sessions,         \* the add_ibit requests that have looked up their tags
                      \* and have not committed yet
    quiz_log,         \* history: per tenant, the note ids the quizzes returned
                      \* since the tenant's notes last changed
    last              \* the last request served and what it answered

vars == <<ibits, categories, entities, dates, ibit_categories, ibit_entities,
          ibit_dates, quiz_progress, users, sessions, quiz_log, last>>

(***************************************************************************)
(* Bounds of the model.                                                    *)
(***************************************************************************)
\* The largest note id handed out: AddIbit is disabled beyond it.
MaxIbitId == 2

Tenants == {1, 2}

\* SQL NULL / Python None in an integer column or a string field.
Null == 0

(***************************************************************************)
(* Strings are sequences of characters, so that strip(), lower(),          *)
(* split(",") and str()/int() are computed and not assumed.                *)
(***************************************************************************)
IsSpace(c) == c = " "

LowerChar(c) ==
    CASE c = "A" -> "a"
      [] c = "B" -> "b"
      [] c = "F" -> "f"
      [] OTHER -> c

Lower(s) == [i \in 1..Len(s) |-> LowerChar(s[i])]

RECURSIVE LStrip(_)
LStrip(s) == IF s # <<>> /\ IsSpace(Head(s)) THEN LStrip(Tail(s)) ELSE s

RECURSIVE RStrip(_)
RStrip(s) ==
    IF s # <<>> /\ IsSpace(s[Len(s)]) THEN RStrip(SubSeq(s, 1, Len(s) - 1)) ELSE s

Strip(s) == RStrip(LStrip(s))

\* str.split(sep): the pieces between the separators, empty pieces included.
RECURSIVE Split(_, _)
Split(s, sep) ==
    IF \A i \in 1..Len(s) : s[i] # sep
    THEN <<s>>
    ELSE LET k == CHOOSE i \in 1..Len(s) :
                      s[i] = sep /\ \A j \in 1..(i - 1) : s[j] # sep
         IN <<SubSeq(s, 1, k - 1)>> \o Split(SubSeq(s, k + 1, Len(s)), sep)

\* sep.join(parts)
RECURSIVE Join(_, _)
Join(parts, sep) ==
    IF parts = <<>> THEN <<>>
    ELSE IF Len(parts) = 1 THEN parts[1]
    ELSE parts[1] \o <<sep>> \o Join(Tail(parts), sep)

Digits == <<"0", "1", "2", "3", "4", "5", "6", "7", "8", "9">>

\* str(n) for n >= 0
RECURSIVE IntToStr(_)
IntToStr(n) ==
    IF n < 10 THEN <<Digits[n + 1]>>
    ELSE IntToStr(n \div 10) \o <<Digits[(n % 10) + 1]>>

DigitValue(c) == (CHOOSE d \in 1..10 : Digits[d] = c) - 1

\* int(s) for a string of decimal digits
RECURSIVE StrToInt(_)
StrToInt(s) ==
    IF Len(s) = 1 THEN DigitValue(s[1])
    ELSE 10 * StrToInt(SubSeq(s, 1, Len(s) - 1)) + DigitValue(s[Len(s)])

Range(f) == {f[x] : x \in DOMAIN f}

SetMax(S) == CHOOSE x \in S : \A y \in S : y <= x

SetMin(S) == CHOOSE x \in S : \A y \in S : x <= y

\* sorted(S) for a set of integers
RECURSIVE Sorted(_)
Sorted(S) == IF S = {} THEN <<>> ELSE <<SetMin(S)>> \o Sorted(S \ {SetMin(S)})

(***************************************************************************)
(* Tables.                                                                 *)
(***************************************************************************)
EmptyTable == <<>>

\* INTEGER PRIMARY KEY of SQLite: the next rowid is the largest one plus one.
NextId(tbl) == IF DOMAIN tbl = {} THEN 1 ELSE SetMax(DOMAIN tbl) + 1

\* DELETE of the row with the key.
RemoveKey(tbl, key) == [k \in DOMAIN tbl \ {key} |-> tbl[k]]

\* The value column of a tag table.
TagValue(kind, row) == IF kind = "date" THEN row.date ELSE row.name

NewTagRow(kind, value, owner) ==
    CASE kind = "category" -> [name |-> value, user_id |-> owner]
      [] kind = "entity" -> [name |-> value, user_id |-> owner, linked_to_id |-> Null]
      [] kind = "date" -> [date |-> value, user_id |-> owner]

\* A faulty variant: the value column carries no constraint
NoConstraint(kind, tbl) == TRUE

\* unique=True on the value column: no two rows of a table hold the same value.
UniqueOk(kind, tbl) ==
    \A i, j \in DOMAIN tbl :
        TagValue(kind, tbl[i]) = TagValue(kind, tbl[j]) => i = j

\* A bag of association rows.
Count(bag, row) == IF row \in DOMAIN bag THEN bag[row] ELSE 0

\* The tags a loaded collection ibit.<kind> holds: one entry per distinct tag.
TagsOf(bag, ibit_id) == {r[2] : r \in {x \in DOMAIN bag : x[1] = ibit_id}}

\* entity.ibits / category.ibits: the notes a loaded tag collection holds.
IbitsOf(bag, tag_id) == {r[1] : r \in {x \in DOMAIN bag : x[2] = tag_id}}

\* Occurrences of x in the sequence s.
Occurrences(s, x) == Cardinality({i \in 1..Len(s) : s[i] = x})

\* INSERT one association row per occurrence of a tag in the list `added`.
InsertRows(bag, ibit_id, added) ==
    LET new == {<<ibit_id, added[i]>> : i \in 1..Len(added)}
    IN [r \in DOMAIN bag \cup new |->
            Count(bag, r) + (IF r \in new THEN Occurrences(added, r[2]) ELSE 0)]

\* A faulty variant: the association rows are left in place
KeepRows(bag, ibit_id, removed) == bag

\* DELETE ... WHERE ibit_id = ? AND tag_id = ? for every tag in `removed`.
DeleteRows(bag, ibit_id, removed) ==
    [r \in {x \in DOMAIN bag : ~(x[1] = ibit_id /\ x[2] \in removed)} |-> bag[r]]

\* The unit of work expects each such DELETE to match exactly one row and
\* raises StaleDataError otherwise.
DeleteIsSane(bag, ibit_id, removed) ==
    \A t \in removed : Count(bag, <<ibit_id, t>>) = 1

(***************************************************************************)
(* Tag resolution: query(...).filter(...).first(), else create and add.    *)
(***************************************************************************)
\* A faulty variant: the lookup never matches, so every candidate is created
FindNothing(kind, tbl, user, scoped, value) == {}

\* The rows a lookup matches; `scoped` is whether the filter names user_id.
Find(kind, tbl, user, scoped, value) ==
    {i \in DOMAIN tbl :
        /\ TagValue(kind, tbl[i]) = value
        /\ (scoped => tbl[i].user_id = user)}

\* The loop over the candidates of one kind.  `values` are the candidates
\* after normalisation; an empty one is skipped.  Rows added to the session
\* are seen by the next lookup (autoflush).
RECURSIVE Reconcile(_, _, _, _, _, _)
Reconcile(kind, tbl, values, user, scoped, owner) ==
    IF values = <<>>
    THEN [tbl |-> tbl, ids |-> <<>>, found |-> {}]
    ELSE IF Head(values) = <<>>
    THEN Reconcile(kind, tbl, Tail(values), user, scoped, owner)
    ELSE LET hit  == Find(kind, tbl, user, scoped, Head(values))
             id   == IF hit # {} THEN SetMin(hit) ELSE NextId(tbl)
             tbl1 == IF hit # {} THEN tbl
                     ELSE tbl @@ (id :> NewTagRow(kind, Head(values), owner))
             rest == Reconcile(kind, tbl1, Tail(values), user, scoped, owner)
         IN [tbl   |-> rest.tbl,
             ids   |-> <<id>> \o rest.ids,
             found |-> {tbl[i].user_id : i \in hit} \cup rest.found]

NormCategory(s) == Lower(Strip(s))

NormEntity(s) == Strip(s)

NormDate(s) == Strip(s)

\* The candidates of one kind, each normalised as the loops do.
Normalized(kind, values) ==
    [i \in 1..Len(values) |->
        CASE kind = "category" -> NormCategory(values[i])
          [] kind = "entity" -> NormEntity(values[i])
          [] kind = "date" -> NormDate(values[i])]

(***************************************************************************)
(* The history of quiz answers (not program state): for each tenant the    *)
(* ids the bot quiz returned since the tenant's notes last changed (at     *)
(* most as many as the tenant has notes), and the ids the web quiz         *)
(* returned in the rotation cycle under way, recorded while that cycle     *)
(* has seen no change of the notes.                                        *)
(***************************************************************************)
NoLog == [bot |-> <<>>, web |-> <<>>, aligned |-> TRUE]

StoredUsedIds(user) ==
    IF user \in DOMAIN quiz_progress THEN quiz_progress[user] ELSE <<>>

LogAfterNoteChange(user) ==
    [quiz_log EXCEPT ![user] =
        [bot |-> <<>>, web |-> <<>>, aligned |-> StoredUsedIds(user) = <<>>]]

(***************************************************************************)
(* The record of the last request.                                         *)
(***************************************************************************)
NoRequest ==
    [op |-> "none", user |-> Null, status |-> "none", ibit |-> Null,
     text |-> <<>>, llm |-> "none", metadata |-> "none", cats |-> <<>>, ents |-> <<>>, dts |-> <<>>,
     created |-> 0, found |-> {}, src |-> Null, tgt |-> Null, moved |-> {},
     pool |-> {}, keys |-> {}, nulls |-> {}, response |-> <<>>, listed |-> {},
     held |-> {}, asked |-> Null, quiz |-> Null, progress |-> Null,
     stale |-> {}, code |-> <<>>, telegram |-> <<>>]

(***************************************************************************)
(* The text-understanding service (llm_service.extract_metadata_with_ai).  *)
(***************************************************************************)
\* The keys the prompt asks the model to answer with.
MetadataKeys == {"categories", "entities", "dates", "source"}

\* What json.loads may give: an object with the four keys, or another value.
\* `keys` are the keys the object holds and `nulls` those whose value is null.
JsonObject(cats, ents, dts, source) ==
    [type |-> "object", keys |-> MetadataKeys, nulls |-> {},
     categories |-> cats, entities |-> ents, dates |-> dts, source |-> source]

\* The same object without one key, and with null for the value of one key.
WithoutKey(object, key) == [object EXCEPT !.keys = @ \ {key}]

WithNull(object, key) == [object EXCEPT !.nulls = @ \cup {key}]

JsonArray == [type |-> "array"]

None == [type |-> "none"]

\* A faulty variant: the failure is handed back as an error string, not as None
extract_metadata_error_string(llm) ==
    IF llm.kind = "no_client" THEN [type |-> "string"]
    ELSE IF llm.kind = "raises" THEN [type |-> "string"]
    ELSE llm.value

\* What the call gives add_ibit: None without a client or when the call or
\* the parse raises, else whatever the content parses to.
extract_metadata_with_ai(llm) ==
    IF llm.kind = "no_client" THEN None
    ELSE IF llm.kind = "raises" THEN None
    ELSE llm.value

\* The fallback of add_ibit; the source None is the empty string here.
EmptyMetadata == JsonObject(<<>>, <<>>, <<>>, <<>>)

\* `if not metadata: metadata = {...}`
MetadataOrFallback(metadata) ==
    IF metadata.type = "none" THEN EmptyMetadata ELSE metadata

\* metadata.get(...) raises when the parsed value is not an object.
GetRaises(metadata) == metadata.type # "object"

\* metadata.get(key, default): the default stands in for a missing key only.
Get(metadata, key, default) ==
    IF key \notin metadata.keys THEN default
    ELSE IF key \in metadata.nulls THEN <<>>
    ELSE metadata[key]

\* `for tag in categories_to_add` raises TypeError when the value is None.
IterRaises(metadata) ==
    \E key \in {"categories", "entities", "dates"} :
        key \in metadata.keys /\ key \in metadata.nulls

\* ', '.join(items)
RECURSIVE JoinStr(_, _)
JoinStr(parts, sep) ==
    IF parts = <<>> THEN <<>>
    ELSE IF Len(parts) = 1 THEN parts[1]
    ELSE parts[1] \o sep \o JoinStr(Tail(parts), sep)

Line(label, items) == [label |-> label, text |-> JoinStr(items, <<",", " ">>)]

\* A faulty variant: the summary lists the tags as stored, blank ones dropped
ResponsePartsNormalized(cats, ents, dts, source) ==
    LET Kept(kind, c) == SelectSeq(Normalized(kind, c), LAMBDA v : v # <<>>)
    IN <<Line("stored", <<>>)>>
       \o (IF Kept("category", cats) # <<>>
           THEN <<Line("categories", Kept("category", cats))>> ELSE <<>>)
       \o (IF Kept("entity", ents) # <<>>
           THEN <<Line("entities", Kept("entity", ents))>> ELSE <<>>)
       \o (IF Kept("date", dts) # <<>>
           THEN <<Line("dates", Kept("date", dts))>> ELSE <<>>)
       \o (IF source # <<>> THEN <<Line("source", <<source>>)>> ELSE <<>>)

\* response_parts of add_ibit: the marker, then one line per non-empty list.
ResponseParts(cats, ents, dts, source) ==
    <<Line("stored", <<>>)>>
    \o (IF cats # <<>> THEN <<Line("categories", cats)>> ELSE <<>>)
    \o (IF ents # <<>> THEN <<Line("entities", ents)>> ELSE <<>>)
    \o (IF dts # <<>> THEN <<Line("dates", dts)>> ELSE <<>>)
    \o (IF source # <<>> THEN <<Line("source", <<source>>)>> ELSE <<>>)

\* A faulty variant: the rows flushed before the failure stay in the table
KeepFlushed(stored, flushed) == flushed

\* session.rollback(): the table is what it was when the session began.
Rollback(stored, flushed) == stored

(***************************************************************************)
(* core.add_ibit                                                           *)
(***************************************************************************)
AddIbit(user, text, llm) ==
    LET extracted == extract_metadata_with_ai(llm)
        metadata == MetadataOrFallback(extracted)
        listed   == {categories[i].user_id :
                        i \in {j \in DOMAIN categories : categories[j].user_id = user}}
        new_id   == NextId(ibits)
        source   == Get(metadata, "source", <<>>)
        categories_to_add == Get(metadata, "categories", <<>>)
        entities_to_add   == Get(metadata, "entities", <<>>)
        dates_to_add      == Get(metadata, "dates", <<>>)
        IsNull(key) == key \in metadata.keys /\ key \in metadata.nulls
        cs == Reconcile("category", categories,
                        Normalized("category", categories_to_add), user, TRUE, user)
        es == Reconcile("entity", entities,
                        Normalized("entity", entities_to_add), user, TRUE, user)
        ds == Reconcile("date", dates,
                        Normalized("date", dates_to_add), user, TRUE, user)
        \* the rows added to the session when the handler stops or commits
        flushed_c == IF IsNull("categories") THEN categories ELSE cs.tbl
        flushed_e == IF IsNull("categories") \/ IsNull("entities")
                     THEN entities ELSE es.tbl
        flushed_d == IF IterRaises(metadata) THEN dates ELSE ds.tbl
        committed == /\ UniqueOk("category", cs.tbl)
                     /\ UniqueOk("entity", es.tbl)
                     /\ UniqueOk("date", ds.tbl)
        request == [NoRequest EXCEPT !.op = "add_ibit", !.user = user,
                        !.text = text, !.llm = llm.kind, !.metadata = extracted.type,
                        !.keys = metadata.keys, !.nulls = metadata.nulls,
                        !.cats = categories_to_add, !.ents = entities_to_add,
                        !.dts = dates_to_add,
                        !.found = listed \cup cs.found \cup es.found \cup ds.found]
    IN /\ new_id <= MaxIbitId
       /\ IF GetRaises(metadata)
          THEN /\ UNCHANGED <<ibits, categories, entities, dates, ibit_categories,
                              ibit_entities, ibit_dates, quiz_log>>
               /\ last' = [NoRequest EXCEPT !.op = "add_ibit", !.user = user,
                              !.text = text, !.llm = llm.kind,
                              !.metadata = extracted.type, !.found = listed,
                              !.status = "failed",
                              !.response = <<Line("failed", <<>>)>>]
          ELSE IF ~IterRaises(metadata) /\ committed
          THEN /\ ibits' = ibits @@ (new_id :>
                    [user_id |-> user, text |-> text, source |-> source])
               /\ categories' = cs.tbl
               /\ entities' = es.tbl
               /\ dates' = ds.tbl
               /\ ibit_categories' = InsertRows(ibit_categories, new_id, cs.ids)
               /\ ibit_entities' = InsertRows(ibit_entities, new_id, es.ids)
               /\ ibit_dates' = InsertRows(ibit_dates, new_id, ds.ids)
               /\ last' = [request EXCEPT !.status = "stored", !.ibit = new_id,
                              !.created =
                                  (Cardinality(DOMAIN cs.tbl) - Cardinality(DOMAIN categories))
                                  + (Cardinality(DOMAIN es.tbl) - Cardinality(DOMAIN entities))
                                  + (Cardinality(DOMAIN ds.tbl) - Cardinality(DOMAIN dates)),
                              !.response = ResponseParts(categories_to_add,
                                  entities_to_add, dates_to_add, source)]
               /\ quiz_log' = LogAfterNoteChange(user)
          ELSE /\ categories' = Rollback(categories, flushed_c)
               /\ entities' = Rollback(entities, flushed_e)
               /\ dates' = Rollback(dates, flushed_d)
               /\ UNCHANGED <<ibits, ibit_categories, ibit_entities, ibit_dates,
                              quiz_log>>
               /\ last' = [request EXCEPT !.status = "failed",
                              !.response = <<Line("failed", <<>>)>>]
       /\ UNCHANGED <<quiz_progress, users, sessions>>

(***************************************************************************)
(* core.add_ibit served for several requests at once.  Each request has    *)
(* its own session: its lookups read the committed rows, and the rows it   *)
(* adds reach the tables when it commits.                                  *)
(***************************************************************************)
\* The loop over the candidates of one kind in a session whose lookups saw
\* the table `seen`, written to the table `tbl` at commit.
RECURSIVE ReconcileSeen(_, _, _, _, _)
ReconcileSeen(kind, seen, tbl, values, user) ==
    IF values = <<>>
    THEN [tbl |-> tbl, ids |-> <<>>]
    ELSE IF Head(values) = <<>>
    THEN ReconcileSeen(kind, seen, tbl, Tail(values), user)
    ELSE LET hit  == Find(kind, seen, user, TRUE, Head(values))
             id   == IF hit # {} THEN SetMin(hit) ELSE NextId(tbl)
             row  == NewTagRow(kind, Head(values), user)
             rest == IF hit # {}
                     THEN ReconcileSeen(kind, seen, tbl, Tail(values), user)
                     ELSE ReconcileSeen(kind, seen @@ (id :> row),
                                        tbl @@ (id :> row), Tail(values), user)
         IN [tbl |-> rest.tbl, ids |-> <<id>> \o rest.ids]

\* The values a session missed at its lookup that the tenant holds by now.
Stale(kind, seen, tbl, values, user) ==
    {<<kind, values[i]>> : i \in {j \in 1..Len(values) :
        /\ values[j] # <<>>
        /\ Find(kind, seen, user, TRUE, values[j]) = {}
        /\ Find(kind, tbl, user, TRUE, values[j]) # {}}}

\* Lines 76-118: the extraction and the lookups of one request.
BeginAddIbit(sid, user, text, llm) ==
    LET metadata == MetadataOrFallback(extract_metadata_with_ai(llm))
    IN /\ sid \notin DOMAIN sessions
       /\ ~GetRaises(metadata) /\ ~IterRaises(metadata)
       /\ sessions' = sessions @@ (sid :>
              [user |-> user, text |-> text,
               source |-> Get(metadata, "source", <<>>),
               categories_to_add |-> Get(metadata, "categories", <<>>),
               entities_to_add |-> Get(metadata, "entities", <<>>),
               dates_to_add |-> Get(metadata, "dates", <<>>),
               categories |-> categories, entities |-> entities, dates |-> dates])
       /\ last' = [NoRequest EXCEPT !.op = "add_ibit", !.user = user,
                      !.text = text, !.llm = llm.kind, !.status = "pending"]
       /\ UNCHANGED <<ibits, categories, entities, dates, ibit_categories,
                      ibit_entities, ibit_dates, quiz_progress, users, quiz_log>>

\* Lines 120-139: session.add(new_ibit), session.commit() and the answer.
CommitAddIbit(sid) ==
    /\ sid \in DOMAIN sessions
    /\ LET s == sessions[sid]
           new_id == NextId(ibits)
           cs == ReconcileSeen("category", s.categories, categories,
                               Normalized("category", s.categories_to_add), s.user)
           es == ReconcileSeen("entity", s.entities, entities,
                               Normalized("entity", s.entities_to_add), s.user)
           ds == ReconcileSeen("date", s.dates, dates,
                               Normalized("date", s.dates_to_add), s.user)
           committed == /\ UniqueOk("category", cs.tbl)
                        /\ UniqueOk("entity", es.tbl)
                        /\ UniqueOk("date", ds.tbl)
           request == [NoRequest EXCEPT !.op = "add_ibit", !.user = s.user,
                           !.text = s.text, !.llm = "json",
                           !.cats = s.categories_to_add, !.ents = s.entities_to_add,
                           !.dts = s.dates_to_add,
                           !.stale =
                               Stale("category", s.categories, categories,
                                     Normalized("category", s.categories_to_add), s.user)
                               \cup Stale("entity", s.entities, entities,
                                     Normalized("entity", s.entities_to_add), s.user)
                               \cup Stale("date", s.dates, dates,
                                     Normalized("date", s.dates_to_add), s.user)]
       IN /\ new_id <= MaxIbitId
          /\ sessions' = RemoveKey(sessions, sid)
          /\ IF committed
             THEN /\ ibits' = ibits @@ (new_id :>
                       [user_id |-> s.user, text |-> s.text, source |-> s.source])
                  /\ categories' = cs.tbl
                  /\ entities' = es.tbl
                  /\ dates' = ds.tbl
                  /\ ibit_categories' = InsertRows(ibit_categories, new_id, cs.ids)
                  /\ ibit_entities' = InsertRows(ibit_entities, new_id, es.ids)
                  /\ ibit_dates' = InsertRows(ibit_dates, new_id, ds.ids)
                  /\ last' = [request EXCEPT !.status = "stored", !.ibit = new_id,
                                 !.response = ResponseParts(s.categories_to_add,
                                     s.entities_to_add, s.dates_to_add, s.source)]
                  /\ quiz_log' = LogAfterNoteChange(s.user)
             ELSE /\ categories' = Rollback(categories, cs.tbl)
                  /\ entities' = Rollback(entities, es.tbl)
                  /\ dates' = Rollback(dates, ds.tbl)
                  /\ UNCHANGED <<ibits, ibit_categories, ibit_entities, ibit_dates,
                                 quiz_log>>
                  /\ last' = [request EXCEPT !.status = "failed",
                                 !.response = <<Line("failed", <<>>)>>]
          /\ UNCHANGED <<quiz_progress, users>>

(***************************************************************************)
(* Helpers shared by the handlers that work on a stored note.              *)
(***************************************************************************)
\* The tags the collections of a note hold when loaded, as <<kind, id>>.
HeldBy(ibit_id) ==
    {<<"category", t>> : t \in TagsOf(ibit_categories, ibit_id)}
    \cup {<<"entity", t>> : t \in TagsOf(ibit_entities, ibit_id)}
    \cup {<<"date", t>> : t \in TagsOf(ibit_dates, ibit_id)}

\* A faulty variant: the note is looked up by its id alone
FindIbitOfAnyTenant(user, ibit_id) == {i \in DOMAIN ibits : i = ibit_id}

\* session.query(Ibit).filter(Ibit.id == ibit_id, Ibit.user_id == user_id).first()
FindIbit(user, ibit_id) ==
    {i \in DOMAIN ibits : i = ibit_id /\ ibits[i].user_id = user}

\* A faulty variant: clear() leaves the collection as it was loaded
ClearedNothing(original) == {}

\* ibit.<kind>.clear() empties the loaded collection, and every lookup of the
\* loops autoflushes the session: the rows of all tags held at load are
\* deleted, and an appended tag is inserted before the next one is appended,
\* so a tag listed twice gets one row.
Cleared(original) == original

Appended(listed) == Sorted(Range(listed))

FlushCollection(bag, ibit_id, original, listed) ==
    InsertRows(DeleteRows(bag, ibit_id, Cleared(original)), ibit_id, Appended(listed))

\* The comma separated form field of the edit page, as the handler reads it.
FormValues(field) == IF Strip(field) = <<>> THEN <<>> ELSE Split(field, ",")

(***************************************************************************)
(* web_ui.edit_ibit                                                        *)
(***************************************************************************)
WebEditIbit(user, ibit_id, text, source, cats_field, ents_field, dates_field) ==
    LET hit == FindIbit(user, ibit_id)
        old_c == TagsOf(ibit_categories, ibit_id)
        old_e == TagsOf(ibit_entities, ibit_id)
        old_d == TagsOf(ibit_dates, ibit_id)
        cs == Reconcile("category", categories,
                        Normalized("category", FormValues(cats_field)), user, TRUE, user)
        es == Reconcile("entity", entities,
                        Normalized("entity", FormValues(ents_field)), user, TRUE, user)
        \* filter_by(date=date_str) names no user, and Date(date=date_str) sets none
        ds == Reconcile("date", dates,
                        Normalized("date", FormValues(dates_field)), user, FALSE, Null)
        committed == /\ UniqueOk("category", cs.tbl)
                     /\ UniqueOk("entity", es.tbl)
                     /\ UniqueOk("date", ds.tbl)
                     /\ DeleteIsSane(ibit_categories, ibit_id, Cleared(old_c))
                     /\ DeleteIsSane(ibit_entities, ibit_id, Cleared(old_e))
                     /\ DeleteIsSane(ibit_dates, ibit_id, Cleared(old_d))
        request == [NoRequest EXCEPT !.op = "web_edit", !.user = user,
                        !.ibit = ibit_id, !.text = text, !.held = HeldBy(ibit_id),
                        !.cats = FormValues(cats_field), !.ents = FormValues(ents_field),
                        !.dts = FormValues(dates_field)]
    IN IF hit = {}
       THEN /\ last' = [request EXCEPT !.status = "not_found"]
            /\ UNCHANGED <<ibits, categories, entities, dates, ibit_categories,
                           ibit_entities, ibit_dates, quiz_progress, users, sessions, quiz_log>>
       ELSE IF committed
       THEN /\ ibits' = [ibits EXCEPT ![ibit_id].text = Strip(text),
                                      ![ibit_id].source = Strip(source)]
            /\ categories' = cs.tbl
            /\ entities' = es.tbl
            /\ dates' = ds.tbl
            /\ ibit_categories' = FlushCollection(ibit_categories, ibit_id, old_c, cs.ids)
            /\ ibit_entities' = FlushCollection(ibit_entities, ibit_id, old_e, es.ids)
            /\ ibit_dates' = FlushCollection(ibit_dates, ibit_id, old_d, ds.ids)
            /\ last' = [request EXCEPT !.status = "updated",
                           !.found = cs.found \cup es.found \cup ds.found]
            /\ UNCHANGED <<quiz_progress, users, sessions, quiz_log>>
       ELSE /\ last' = [request EXCEPT !.status = "failed",
                           !.found = cs.found \cup es.found \cup ds.found]
            /\ UNCHANGED <<ibits, categories, entities, dates, ibit_categories,
                           ibit_entities, ibit_dates, quiz_progress, users, sessions, quiz_log>>

(***************************************************************************)
(* core.add_categories (/addcat <ibit_id> <category1> ...)                 *)
(***************************************************************************)
AddCategories(user, ibit_id, category_names) ==
    LET hit == FindIbit(user, ibit_id)
        old_c == TagsOf(ibit_categories, ibit_id)
        \* the names are used as typed: no strip(), no lower()
        cs == Reconcile("category", categories, category_names, user, TRUE, user)
        \* `if category not in ibit.categories`: each tag is appended once
        added == Sorted(Range(cs.ids) \ old_c)
        request == [NoRequest EXCEPT !.op = "add_categories", !.user = user,
                        !.ibit = ibit_id, !.cats = category_names]
    IN IF category_names = <<>>
       THEN /\ last' = [request EXCEPT !.status = "usage"]
            /\ UNCHANGED <<ibits, categories, entities, dates, ibit_categories,
                           ibit_entities, ibit_dates, quiz_progress, users, sessions, quiz_log>>
       ELSE IF hit = {}
       THEN /\ last' = [request EXCEPT !.status = "not_found"]
            /\ UNCHANGED <<ibits, categories, entities, dates, ibit_categories,
                           ibit_entities, ibit_dates, quiz_progress, users, sessions, quiz_log>>
       ELSE IF UniqueOk("category", cs.tbl)
       THEN /\ categories' = cs.tbl
            /\ ibit_categories' = InsertRows(ibit_categories, ibit_id, added)
            /\ last' = [request EXCEPT !.status = "added", !.found = cs.found]
            /\ UNCHANGED <<ibits, entities, dates, ibit_entities, ibit_dates,
                           quiz_progress, users, sessions, quiz_log>>
       ELSE /\ last' = [request EXCEPT !.status = "failed", !.found = cs.found]
            /\ UNCHANGED <<ibits, categories, entities, dates, ibit_categories,
                           ibit_entities, ibit_dates, quiz_progress, users, sessions, quiz_log>>

(***************************************************************************)
(* core.edit_ibit (/edit <ibit_id> <new_text>)                             *)
(***************************************************************************)
EditIbit(user, ibit_id, words) ==
    LET hit == FindIbit(user, ibit_id)
        new_text == JoinStr(words, <<" ">>)
        request == [NoRequest EXCEPT !.op = "edit_ibit", !.user = user,
                        !.ibit = ibit_id, !.text = new_text]
    IN /\ IF words = <<>>
          THEN /\ last' = [request EXCEPT !.status = "usage"]
               /\ UNCHANGED ibits
          ELSE IF hit = {}
          THEN /\ last' = [request EXCEPT !.status = "not_found"]
               /\ UNCHANGED ibits
          ELSE /\ ibits' = [ibits EXCEPT ![ibit_id].text = new_text]
               /\ last' = [request EXCEPT !.status = "updated"]
       /\ UNCHANGED <<categories, entities, dates, ibit_categories, ibit_entities,
                      ibit_dates, quiz_progress, users, sessions, quiz_log>>

(***************************************************************************)
(* core.delete_ibit and web_ui.delete_ibit                                 *)
(***************************************************************************)
DeleteNote(op, user, ibit_id) ==
    LET hit == FindIbit(user, ibit_id)
        old_c == TagsOf(ibit_categories, ibit_id)
        old_e == TagsOf(ibit_entities, ibit_id)
        old_d == TagsOf(ibit_dates, ibit_id)
        committed == /\ DeleteIsSane(ibit_categories, ibit_id, old_c)
                     /\ DeleteIsSane(ibit_entities, ibit_id, old_e)
                     /\ DeleteIsSane(ibit_dates, ibit_id, old_d)
        request == [NoRequest EXCEPT !.op = op, !.user = user, !.ibit = ibit_id,
                        !.held = HeldBy(ibit_id)]
    IN IF hit = {}
       THEN /\ last' = [request EXCEPT !.status = "not_found"]
            /\ UNCHANGED <<ibits, categories, entities, dates, ibit_categories,
                           ibit_entities, ibit_dates, quiz_progress, users, sessions, quiz_log>>
       ELSE IF committed
       THEN /\ ibits' = RemoveKey(ibits, ibit_id)
            /\ ibit_categories' = DeleteRows(ibit_categories, ibit_id, old_c)
            /\ ibit_entities' = DeleteRows(ibit_entities, ibit_id, old_e)
            /\ ibit_dates' = DeleteRows(ibit_dates, ibit_id, old_d)
            /\ last' = [request EXCEPT !.status = "deleted"]
            /\ quiz_log' = LogAfterNoteChange(user)
            /\ UNCHANGED <<categories, entities, dates, quiz_progress, users, sessions>>
       ELSE /\ last' = [request EXCEPT !.status = "failed"]
            /\ UNCHANGED <<ibits, categories, entities, dates, ibit_categories,
                           ibit_entities, ibit_dates, quiz_progress, users, sessions, quiz_log>>

DeleteIbit(user, ibit_id) == DeleteNote("delete_ibit", user, ibit_id)

WebDeleteIbit(user, ibit_id) == DeleteNote("web_delete", user, ibit_id)

(***************************************************************************)
(* web_ui.merge_entity                                                     *)
(***************************************************************************)
\* list.remove(x): the list without the first occurrence of x.
ListRemove(list, x) ==
    IF \A i \in 1..Len(list) : list[i] # x THEN list
    ELSE LET k == CHOOSE i \in 1..Len(list) :
                      list[i] = x /\ \A j \in 1..(i - 1) : list[j] # x
         IN SubSeq(list, 1, k - 1) \o SubSeq(list, k + 1, Len(list))

\* What ibit.entities.remove(source_entity) does to source_entity.ibits, the
\* list the loop is iterating: the back reference removes the note from it.
AfterBackrefRemove(list, ibit_id) == ListRemove(list, ibit_id)

\* `for ibit in source_entity.ibits`: the iterator holds an index into the
\* list and reads list[index] as long as index is inside the list.
RECURSIVE TransferLoop(_, _, _, _, _)
TransferLoop(list, index, bag, source_id, target_id) ==
    IF index > Len(list)
    THEN [bag |-> bag, sane |-> TRUE, visited |-> {}]
    ELSE LET ibit_id == list[index]
             bag1  == IF target_id \in TagsOf(bag, ibit_id) THEN bag
                      ELSE InsertRows(bag, ibit_id, <<target_id>>)
             sane  == DeleteIsSane(bag1, ibit_id, {source_id})
             bag2  == DeleteRows(bag1, ibit_id, {source_id})
             rest  == TransferLoop(AfterBackrefRemove(list, ibit_id), index + 1,
                                   bag2, source_id, target_id)
         IN [bag |-> rest.bag, sane |-> sane /\ rest.sane,
             visited |-> {ibit_id} \cup rest.visited]

\* The orders in which the rows of a loaded collection may arrive.
Orders(S) == {f \in [1..Cardinality(S) -> S] : Range(f) = S}

\* A faulty variant: the entity is looked up by name alone
FindEntityOfAnyTenant(user, name) == Find("entity", entities, user, FALSE, name)

\* session.query(Entity).filter(Entity.user_id == user.id, Entity.name == name)
FindEntity(user, name) == Find("entity", entities, user, TRUE, name)

\* A faulty variant: the merged entity is deleted once its notes have moved
DropSource(tbl, source_id, target_id) ==
    [k \in DOMAIN tbl \ {source_id} |-> tbl[k]]

\* source_entity.linked_to_id = target.id
MarkAlias(tbl, source_id, target_id) ==
    [tbl EXCEPT ![source_id].linked_to_id = target_id]

MergeEntity(user, entity_name, target_entity) ==
    LET src_hit == FindEntity(user, entity_name)
        tgt_hit == FindEntity(user, target_entity)
        source_id == SetMin(src_hit)
        target_id == SetMin(tgt_hit)
        Loop(order) == TransferLoop(order, 1, ibit_entities, source_id, target_id)
        request == [NoRequest EXCEPT !.op = "merge_entity", !.user = user,
                        !.ents = <<entity_name, target_entity>>,
                        !.found = {entities[i].user_id : i \in src_hit \cup tgt_hit}]
    IN IF src_hit = {} \/ tgt_hit = {}
       THEN /\ last' = [request EXCEPT !.status = "not_found"]
            /\ UNCHANGED <<ibits, categories, entities, dates, ibit_categories,
                           ibit_entities, ibit_dates, quiz_progress, users, sessions, quiz_log>>
       ELSE IF source_id = target_id
       THEN /\ last' = [request EXCEPT !.status = "self_merge",
                           !.src = source_id, !.tgt = target_id]
            /\ UNCHANGED <<ibits, categories, entities, dates, ibit_categories,
                           ibit_entities, ibit_dates, quiz_progress, users, sessions, quiz_log>>
       ELSE \E order \in Orders(IbitsOf(ibit_entities, source_id)) :
            /\ IF Loop(order).sane
               THEN /\ ibit_entities' = Loop(order).bag
                    /\ entities' = MarkAlias(entities, source_id, target_id)
                    /\ last' = [request EXCEPT !.status = "merged",
                                   !.src = source_id, !.tgt = target_id,
                                   !.moved = IbitsOf(ibit_entities, source_id)]
                    /\ UNCHANGED <<ibits, categories, dates, ibit_categories,
                                   ibit_dates, quiz_progress, users, sessions, quiz_log>>
               ELSE /\ last' = [request EXCEPT !.status = "failed",
                                   !.src = source_id, !.tgt = target_id]
                    /\ UNCHANGED <<ibits, categories, entities, dates, ibit_categories,
                                   ibit_entities, ibit_dates, quiz_progress, users, sessions, quiz_log>>

(***************************************************************************)
(* The listings: web_ui.home, list_entities, generate_graph and            *)
(* core.list_items.  A listing answers with rows, given as <<kind, id>>.   *)
(***************************************************************************)
\* filter(<Model>.user_id == user.id)
RowsOfUser(kind, tbl, user) ==
    {<<kind, i>> : i \in {j \in DOMAIN tbl : tbl[j].user_id = user}}

\* filter(Entity.user_id == user.id, Entity.linked_to_id == None)
CanonicalEntities(user) ==
    {<<"entity", i>> : i \in {j \in DOMAIN entities :
        entities[j].user_id = user /\ entities[j].linked_to_id = Null}}

Listing(op, user, rows) ==
    /\ last' = [NoRequest EXCEPT !.op = op, !.user = user, !.status = "listed",
                   !.listed = rows]
    /\ UNCHANGED <<ibits, categories, entities, dates, ibit_categories,
                   ibit_entities, ibit_dates, quiz_progress, users, sessions, quiz_log>>

Home(user) ==
    Listing("home", user,
        RowsOfUser("ibit", ibits, user) \cup RowsOfUser("category", categories, user)
        \cup CanonicalEntities(user) \cup RowsOfUser("date", dates, user))

ListEntities(user) == Listing("list_entities", user, CanonicalEntities(user))

GenerateGraph(user) ==
    Listing("generate_graph", user,
        RowsOfUser("ibit", ibits, user) \cup RowsOfUser("category", categories, user)
        \cup CanonicalEntities(user) \cup RowsOfUser("date", dates, user))

\* web_ui.view_entity: the page of an entity, with the entities offered as
\* merge targets (all_entities) and the aliases of the entity.
ViewEntity(user, entity_name) ==
    LET entity == FindEntity(user, entity_name)
        all_entities == {<<"candidate", i>> : i \in {j \in DOMAIN entities :
                            j # SetMin(entity) /\ entities[j].linked_to_id = Null}}
        aliases == {<<"alias", i>> : i \in {j \in DOMAIN entities :
                            entities[j].linked_to_id = SetMin(entity)}}
        request == [NoRequest EXCEPT !.op = "view_entity", !.user = user,
                        !.ents = <<entity_name>>]
    IN /\ IF entity = {}
          THEN last' = [request EXCEPT !.status = "not_found"]
          ELSE last' = [request EXCEPT !.status = "viewed", !.src = SetMin(entity),
                           !.listed = all_entities \cup aliases]
       /\ UNCHANGED <<ibits, categories, entities, dates, ibit_categories,
                      ibit_entities, ibit_dates, quiz_progress, users, sessions,
                      quiz_log>>

\* /list <type>; list_type is args[0].lower()
ListItems(user, args) ==
    IF args = <<>>
    THEN /\ last' = [NoRequest EXCEPT !.op = "list_items", !.user = user,
                        !.status = "usage"]
         /\ UNCHANGED <<ibits, categories, entities, dates, ibit_categories,
                        ibit_entities, ibit_dates, quiz_progress, users, sessions, quiz_log>>
    ELSE LET list_type == args[1]
         IN IF list_type = "ibits"
            THEN Listing("list_items", user, RowsOfUser("ibit", ibits, user))
            ELSE IF list_type = "categories"
            THEN Listing("list_items", user, RowsOfUser("category", categories, user))
            ELSE IF list_type = "entities"
            THEN Listing("list_items", user, RowsOfUser("entity", entities, user))
            ELSE /\ last' = [NoRequest EXCEPT !.op = "list_items", !.user = user,
                                !.status = "invalid_type"]
                 /\ UNCHANGED <<ibits, categories, entities, dates, ibit_categories,
                                ibit_entities, ibit_dates, quiz_progress, users, sessions, quiz_log>>

(***************************************************************************)
(* llm_service.generate_quiz_question_with_ai.  Python lists are sequences *)
(* here; a Python index i names the element i + 1, and a negative one      *)
(* counts from the end.                                                    *)
(***************************************************************************)
QuizKeys == {"question", "options", "correct_index"}

\* What the content of the answer parses to.
QuizObject(options, correct_index) ==
    [type |-> "object", keys |-> QuizKeys, options |-> options,
     correct_index |-> correct_index]

\* list[i] raises IndexError outside -len(list) .. len(list) - 1.
IndexError(list, i) == i >= Len(list) \/ i < 0 - Len(list)

\* list[i]
Item(list, i) == IF i >= 0 THEN list[i + 1] ELSE list[Len(list) + i + 1]

\* list.index(x): the first position that holds x.
Index(list, x) == SetMin({i \in 1..Len(list) : list[i] = x}) - 1

\* The orders random.shuffle may leave a list of n elements in.
Shuffles(n) == {f \in [1..n -> 1..n] : Range(f) = 1..n}

\* A faulty variant: the index the model gave is returned with the new order
ShuffledKeepingIndex(options, correct_index, order) ==
    [type |-> "dict",
     choices |-> [k \in 1..Len(options) |-> options[order[k]]],
     correct_index |-> correct_index]

\* correct_answer = options[correct_index]; random.shuffle(options);
\* new_correct_index = options.index(correct_answer)
Shuffled(options, correct_index, order) ==
    LET correct_answer == Item(options, correct_index)
        choices == [k \in 1..Len(options) |-> options[order[k]]]
    IN [type |-> "dict", choices |-> choices,
        correct_index |-> Index(choices, correct_answer)]

\* None without a client, when the call or the parse raises, when a key is
\* missing (KeyError) and when the index raises IndexError.
generate_quiz_question_with_ai(llm, order) ==
    IF llm.kind = "no_client" THEN None
    ELSE IF llm.kind = "raises" THEN None
    ELSE IF llm.value.type # "object" THEN None
    ELSE IF ~(QuizKeys \subseteq llm.value.keys) THEN None
    ELSE IF IndexError(llm.value.options, llm.value.correct_index) THEN None
    ELSE Shuffled(llm.value.options, llm.value.correct_index, order)

\* One call of the generator, with the order the shuffle happens to give.
GenerateQuizQuestionWithAi(llm, order) ==
    /\ last' = [NoRequest EXCEPT !.op = "generate_quiz_question_with_ai",
                   !.llm = llm.kind,
                   !.asked = IF llm.kind = "json" THEN llm.value ELSE Null,
                   !.quiz = generate_quiz_question_with_ai(llm, order),
                   !.status = IF generate_quiz_question_with_ai(llm, order) = None
                              THEN "none" ELSE "question"]
    /\ UNCHANGED <<ibits, categories, entities, dates, ibit_categories,
                   ibit_entities, ibit_dates, quiz_progress, users, sessions, quiz_log>>

(***************************************************************************)
(* Account linking: auth.create_linking_code, auth.link_telegram_account   *)
(* and core.link_telegram_account.  The columns telegram_user_id and       *)
(* linking_code are nullable; None is the empty string here.               *)
(***************************************************************************)
\* A registered user that has linked no Telegram account and holds no code.
\* `redeemed` is history, not a column: the code the user linked with last.
NewUser == [telegram_user_id |-> <<>>, linking_code |-> <<>>, redeemed |-> <<>>]

\* A faulty variant: the code stays with the user once it has been used
LinkedKeepingCode(row, telegram_user_id) ==
    [row EXCEPT !.telegram_user_id = telegram_user_id, !.redeemed = row.linking_code]

\* user.telegram_user_id = telegram_user_id; user.linking_code = None
Linked(row, telegram_user_id) ==
    [row EXCEPT !.telegram_user_id = telegram_user_id, !.linking_code = <<>>,
                !.redeemed = row.linking_code]

\* db.query(User).filter(User.linking_code == code).first()
UserByCode(code) == {u \in DOMAIN users : users[u].linking_code = code}

\* A faulty variant: the check for a linked account finds nobody
get_nobody(telegram_user_id) == {}

\* db.query(User).filter(User.telegram_user_id == telegram_user_id).first()
get_user_by_telegram_id(telegram_user_id) ==
    {u \in DOMAIN users : users[u].telegram_user_id = telegram_user_id}

\* POST /account/generate-code.  The loop draws codes until it has one that
\* no user holds.
CreateLinkingCode(user_id, code) ==
    /\ UserByCode(code) = {}
    /\ IF user_id \notin DOMAIN users
       THEN /\ last' = [NoRequest EXCEPT !.op = "create_linking_code",
                           !.user = user_id, !.status = "not_found"]
            /\ UNCHANGED users
       ELSE /\ users' = [users EXCEPT ![user_id].linking_code = code]
            /\ last' = [NoRequest EXCEPT !.op = "create_linking_code",
                           !.user = user_id, !.status = "created", !.code = code]
    /\ UNCHANGED <<ibits, categories, entities, dates, ibit_categories,
                   ibit_entities, ibit_dates, quiz_progress, sessions, quiz_log>>

\* core.link_telegram_account, with auth.link_telegram_account inline.
LinkTelegramAccount(code, telegram_user_id) ==
    LET existing_user == get_user_by_telegram_id(telegram_user_id)
        user == UserByCode(code)
        existing == {u \in DOMAIN users : users[u].telegram_user_id = telegram_user_id}
        request == [NoRequest EXCEPT !.op = "link_telegram_account",
                        !.code = code, !.telegram = telegram_user_id]
    IN /\ IF existing_user # {}
          THEN /\ last' = [request EXCEPT !.status = "already_linked",
                              !.user = SetMin(existing_user)]
               /\ UNCHANGED users
          ELSE IF user = {}
          THEN /\ last' = [request EXCEPT !.status = "invalid_code"]
               /\ UNCHANGED users
          ELSE IF existing # {} /\ SetMin(existing) # SetMin(user)
          THEN /\ last' = [request EXCEPT !.status = "linked_to_another_user"]
               /\ UNCHANGED users
          ELSE /\ users' = [users EXCEPT
                              ![SetMin(user)] = Linked(@, telegram_user_id)]
               /\ last' = [request EXCEPT !.status = "linked", !.user = SetMin(user)]
       /\ UNCHANGED <<ibits, categories, entities, dates, ibit_categories,
                      ibit_entities, ibit_dates, quiz_progress, sessions, quiz_log>>

(***************************************************************************)
(* The quiz: web_ui.get_quiz (with rotation) and core.generate_quiz.       *)
(***************************************************************************)
IbitIdsOf(user) == {i \in DOMAIN ibits : ibits[i].user_id = user}

\* set(int(id_str) for id_str in used_ibit_ids.split(",") if id_str)
ParseUsedIds(used_ibit_ids) ==
    IF used_ibit_ids = <<>> THEN {}
    ELSE LET parts == Split(used_ibit_ids, ",")
         IN {StrToInt(parts[i]) : i \in {j \in 1..Len(parts) : parts[j] # <<>>}}

\* ",".join(str(id) for id in sorted(used_ids))
FormatUsedIds(used_ids) ==
    LET ids == Sorted(used_ids)
    IN Join([i \in 1..Len(ids) |-> IntToStr(ids[i])], ",")

\* A faulty variant: the cycle is reset by the size of the used set, stale ids included
RotationBySize(all_ibit_ids, used_ids) ==
    IF Cardinality(used_ids) >= Cardinality(all_ibit_ids)
    THEN [used |-> {}, pool |-> all_ibit_ids]
    ELSE [used |-> used_ids, pool |-> all_ibit_ids \ used_ids]

\* The pool and the used set the draw is made from.
Rotation(all_ibit_ids, used_ids) ==
    IF all_ibit_ids \ used_ids = {}
    THEN [used |-> {}, pool |-> all_ibit_ids]
    ELSE [used |-> used_ids, pool |-> all_ibit_ids \ used_ids]

GetQuiz(user, has_client, selected_id, generated) ==
    LET all_ibit_ids == IbitIdsOf(user)
        stored == StoredUsedIds(user)
        rot == Rotation(all_ibit_ids, ParseUsedIds(stored))
        used_ids == rot.used \cup {selected_id}
        request == [NoRequest EXCEPT !.op = "get_quiz", !.user = user]
    IN IF ~has_client
       THEN /\ selected_id = Null /\ generated
            /\ last' = [request EXCEPT !.status = "no_client"]
            /\ UNCHANGED <<ibits, categories, entities, dates, ibit_categories,
                           ibit_entities, ibit_dates, quiz_progress, users, sessions, quiz_log>>
       ELSE IF all_ibit_ids = {}
       THEN /\ selected_id = Null /\ generated
            /\ last' = [request EXCEPT !.status = "no_ibits"]
            /\ UNCHANGED <<ibits, categories, entities, dates, ibit_categories,
                           ibit_entities, ibit_dates, quiz_progress, users, sessions, quiz_log>>
       ELSE /\ selected_id \in rot.pool
            /\ quiz_progress' =
                   [u \in DOMAIN quiz_progress \cup {user} |->
                       IF u = user THEN FormatUsedIds(used_ids) ELSE quiz_progress[u]]
            /\ last' = [request EXCEPT
                           !.status = IF generated THEN "question" ELSE "generation_failed",
                           !.ibit = selected_id, !.pool = rot.pool,
                           !.progress = IF generated
                               THEN [current |-> Cardinality(used_ids),
                                     total |-> Cardinality(all_ibit_ids)]
                               ELSE Null]
            /\ quiz_log' = [quiz_log EXCEPT ![user] =
                   LET log == quiz_log[user]
                       returned == IF generated THEN <<selected_id>> ELSE <<>>
                   IN IF rot.used = {}
                      THEN [log EXCEPT !.web = returned, !.aligned = TRUE]
                      ELSE IF log.aligned
                      THEN [log EXCEPT !.web = log.web \o returned]
                      ELSE log]
            /\ UNCHANGED <<ibits, categories, entities, dates, ibit_categories,
                           ibit_entities, ibit_dates, users, sessions>>

GenerateQuiz(user, has_client, selected_id, generated) ==
    LET all_ibit_ids == IbitIdsOf(user)
        request == [NoRequest EXCEPT !.op = "generate_quiz", !.user = user]
    IN /\ IF ~has_client
          THEN /\ selected_id = Null /\ generated
               /\ last' = [request EXCEPT !.status = "no_client"]
               /\ UNCHANGED quiz_log
          ELSE IF all_ibit_ids = {}
          THEN /\ selected_id = Null /\ generated
               /\ last' = [request EXCEPT !.status = "no_ibits"]
               /\ UNCHANGED quiz_log
          ELSE /\ selected_id \in all_ibit_ids
               /\ last' = [request EXCEPT
                              !.status = IF generated THEN "question" ELSE "generation_failed",
                              !.ibit = selected_id, !.pool = all_ibit_ids]
               /\ quiz_log' = [quiz_log EXCEPT ![user].bot =
                      IF generated /\ Len(@) < Cardinality(all_ibit_ids)
                      THEN Append(@, selected_id) ELSE @]
       /\ UNCHANGED <<ibits, categories, entities, dates, ibit_categories,
                      ibit_entities, ibit_dates, quiz_progress, users, sessions>>

Init ==
    /\ ibits = EmptyTable
    /\ categories = EmptyTable
    /\ entities = EmptyTable
    /\ dates = EmptyTable
    /\ ibit_categories = EmptyTable
    /\ ibit_entities = EmptyTable
    /\ ibit_dates = EmptyTable
    /\ quiz_progress = EmptyTable
    /\ users = [u \in Tenants |-> NewUser]
    /\ sessions = EmptyTable
    /\ quiz_log = [u \in Tenants |-> NoLog]
    /\ last = NoRequest


(***************************************************************************)
(* The requests the specifications below draw from.                        *)
(***************************************************************************)
IbitIds == 1..MaxIbitId

SomeText == <<"t">>

NoSource == <<>>

Response(cats, ents, dts, source) ==
    [kind |-> "json", value |-> JsonObject(cats, ents, dts, source)]

NoClient == [kind |-> "no_client"]

CallRaises == [kind |-> "raises"]

\* Categories and dates as the model may return them.
TagResponses ==
    {NoClient, CallRaises,
     Response(<< <<"f">> >>, <<>>, <<>>, NoSource),
     Response(<< <<" ", "F">> >>, <<>>, << <<"9">> >>, NoSource)}

CategoryFields == {<<>>, <<"F">>}

DateFields == {<<>>, <<"9">>}

CategoryArgs == {<<>>, << <<"f">> >>, << <<"F">> >>}

TagsNext ==
    \/ \E u \in Tenants, llm \in TagResponses : AddIbit(u, SomeText, llm)
    \/ \E u \in Tenants, i \in IbitIds, cf \in CategoryFields, df \in DateFields :
          WebEditIbit(u, i, SomeText, NoSource, cf, <<>>, df)
    \/ \E u \in Tenants, i \in IbitIds, names \in CategoryArgs :
          AddCategories(u, i, names)
    \/ \E u \in Tenants, i \in IbitIds : DeleteIbit(u, i)
    \/ \E u \in Tenants, i \in IbitIds : WebDeleteIbit(u, i)

SpecTags == Init /\ [][TagsNext]_vars

\* Entities as the model may return them.
EntityNames == {<<"X">>, <<"Y">>, <<"Z">>}

EntityResponses ==
    {Response(<<>>, e, <<>>, NoSource) :
        e \in {<< <<"X">> >>, << <<"Y">> >>, << <<"Z">> >>, << <<"X">>, <<"Y">> >>}}

MergeNext ==
    \/ \E llm \in EntityResponses : AddIbit(1, SomeText, llm)
    \/ \E u \in Tenants, a \in EntityNames, b \in EntityNames :
          MergeEntity(u, a, b)
    \/ \E i \in IbitIds : WebDeleteIbit(1, i)

SpecMerge == Init /\ [][MergeNext]_vars

\* Ingestion by one tenant and merging by both.
RedirectNext ==
    \/ \E llm \in EntityResponses : AddIbit(1, SomeText, llm)
    \/ \E a \in EntityNames, b \in EntityNames : MergeEntity(1, a, b)
    \/ MergeEntity(2, <<"X">>, <<"Y">>)

SpecRedirect == Init /\ [][RedirectNext]_vars

\* Categories as the model may return them for the notes to be edited.
EditResponses ==
    {Response(<< <<"c">> >>, <<>>, <<>>, NoSource),
     Response(<< <<"a">>, <<"c">> >>, <<>>, <<>>, NoSource)}

\* The categories field of the edit page.
EditFields == {<<>>, <<"a", ",", " ", "b">>, <<"C">>, <<"b", ",", ",", "B">>}

\* Ingestion and manual edits of the categories.
EditNext ==
    \/ \E llm \in EditResponses : AddIbit(1, SomeText, llm)
    \/ \E i \in IbitIds, cf \in EditFields :
          WebEditIbit(1, i, SomeText, NoSource, cf, <<>>, <<>>)

SpecEdit == Init /\ [][EditNext]_vars

ListArgs == {<<>>, <<"ibits">>, <<"categories">>, <<"entities">>, <<"dates">>}

\* Merging, and the listings of entities.
AliasNext ==
    \/ \E llm \in EntityResponses : AddIbit(1, SomeText, llm)
    \/ \E u \in Tenants, a \in EntityNames, b \in EntityNames :
          MergeEntity(u, a, b)
    \/ \E u \in Tenants : Home(u)
    \/ \E u \in Tenants : ListEntities(u)
    \/ \E u \in Tenants : GenerateGraph(u)
    \/ \E u \in Tenants, args \in ListArgs : ListItems(u, args)

SpecAlias == Init /\ [][AliasNext]_vars

QuizNext ==
    \/ \E u \in Tenants : AddIbit(u, SomeText, NoClient)
    \/ \E u \in Tenants, i \in IbitIds : DeleteIbit(u, i)
    \/ \E u \in Tenants, c \in BOOLEAN, i \in IbitIds \cup {Null}, g \in BOOLEAN :
          GetQuiz(u, c, i, g)
    \/ \E u \in Tenants, c \in BOOLEAN, i \in IbitIds \cup {Null}, g \in BOOLEAN :
          GenerateQuiz(u, c, i, g)

SpecQuiz == Init /\ [][QuizNext]_vars

\* The web quiz alone, with notes coming and going.
RotationNext ==
    \/ \E u \in Tenants : AddIbit(u, SomeText, NoClient)
    \/ \E u \in Tenants, i \in IbitIds : DeleteIbit(u, i)
    \/ \E u \in Tenants, c \in BOOLEAN, i \in IbitIds \cup {Null}, g \in BOOLEAN :
          GetQuiz(u, c, i, g)

SpecRotation == Init /\ [][RotationNext]_vars

\* "1989-11-09", "1989-11" and "1989" as the model may list them.
FullDate == <<"1", "9", "8", "9", "-", "1", "1", "-", "0", "9">>

MonthDate == SubSeq(FullDate, 1, 7)

YearDate == SubSeq(FullDate, 1, 4)

DateResponses ==
    {Response(<<>>, <<>>, d, NoSource) :
        d \in {<<FullDate>>, <<MonthDate>>, <<YearDate>>, <<FullDate, YearDate>>,
                <<MonthDate, YearDate>>, <<FullDate, MonthDate, YearDate>>}}

\* Ingestion of notes that mention a date.
DatesNext ==
    \/ \E u \in Tenants, llm \in DateResponses : AddIbit(u, SomeText, llm)
    \/ \E u \in Tenants, i \in IbitIds : DeleteIbit(u, i)

SpecDates == Init /\ [][DatesNext]_vars

\* Entities of both tenants, merges, and the entity page.
ViewNext ==
    \/ \E u \in Tenants, llm \in EntityResponses : AddIbit(u, SomeText, llm)
    \/ \E u \in Tenants, a \in EntityNames, b \in EntityNames : MergeEntity(u, a, b)
    \/ \E u \in Tenants, name \in EntityNames : ViewEntity(u, name)

SpecView == Init /\ [][ViewNext]_vars

\* The words after the note id of /edit.
EditWords == {<<>>, << <<"u">>, <<"v">> >>}

\* The bot commands that name a note, by both tenants.
ScopeNext ==
    \/ \E u \in Tenants : AddIbit(u, SomeText, NoClient)
    \/ \E u \in Tenants, i \in IbitIds, words \in EditWords : EditIbit(u, i, words)
    \/ \E u \in Tenants, i \in IbitIds, names \in {<<>>, << <<"f">> >>} :
          AddCategories(u, i, names)
    \/ \E u \in Tenants, i \in IbitIds : DeleteIbit(u, i)

SpecScope == Init /\ [][ScopeNext]_vars

\* Linking codes as generate_linking_code may draw them, and the Telegram
\* identities that may present them.
LinkingCodes == {<<"K", "1">>, <<"K", "2">>, <<"K", "3">>}

TelegramIds == {<<"7">>, <<"8">>, <<"9">>}

LinkNext ==
    \/ \E u \in Tenants, code \in LinkingCodes : CreateLinkingCode(u, code)
    \/ \E code \in LinkingCodes, t \in TelegramIds : LinkTelegramAccount(code, t)

SpecLink == Init /\ [][LinkNext]_vars

\* The requests that may be served at once.
SessionIds == {1, 2}

RaceResponses ==
    {Response(<< <<"f">> >>, <<>>, <<>>, NoSource),
     Response(<< <<"f">>, <<"g">> >>, <<>>, <<>>, NoSource),
     Response(<<>>, << <<"X">> >>, <<>>, NoSource)}

\* Ingestions of one tenant that overlap.
RaceNext ==
    \/ \E sid \in SessionIds, llm \in RaceResponses :
          BeginAddIbit(sid, 1, SomeText, llm)
    \/ \E sid \in SessionIds : CommitAddIbit(sid)

SpecRace == Init /\ [][RaceNext]_vars

MaxOptions == 3

OptionLists ==
    UNION {[1..n -> {"a", "b", "c"}] : n \in 0..MaxOptions}

\* Answers of the model to the quiz prompt: none, a list, an object with any
\* index, an object that lacks a key.
QuizResponses ==
    {NoClient, CallRaises, [kind |-> "json", value |-> JsonArray]}
    \cup {[kind |-> "json", value |-> QuizObject(o, i)] :
             o \in OptionLists, i \in (0 - MaxOptions - 1)..MaxOptions}
    \cup {[kind |-> "json", value |-> WithoutKey(QuizObject(<<"a", "b">>, 0), k)] :
             k \in QuizKeys}

\* The orders of the shuffle for an answer.
ShufflesOf(llm) ==
    Shuffles(IF llm.kind = "json" /\ llm.value.type = "object"
             THEN Len(llm.value.options) ELSE 0)

ShuffleNext ==
    \E llm \in QuizResponses : \E order \in ShufflesOf(llm) :
        GenerateQuizQuestionWithAi(llm, order)

SpecShuffle == Init /\ [][ShuffleNext]_vars

\* Answers of the model: none, a list, objects, an object that lacks the
\* key "dates", an object whose "entities" is null.
IngestResponses ==
    {NoClient, CallRaises,
     [kind |-> "json", value |-> JsonArray],
     Response(<< <<"f">> >>, <<>>, <<>>, NoSource),
     Response(<<>>, << <<"X">> >>, <<>>, NoSource),
     Response(<< <<" ", "F">>, <<"f">> >>, << <<"X">> >>, << <<"9">> >>, <<"N">>),
     [kind |-> "json",
      value |-> WithoutKey(JsonObject(<< <<"f">> >>, <<>>, <<>>, NoSource), "dates")],
     [kind |-> "json",
      value |-> WithNull(JsonObject(<< <<"f">> >>, <<>>, <<>>, NoSource), "entities")]}

IngestNext ==
    \/ \E u \in Tenants, llm \in IngestResponses : AddIbit(u, SomeText, llm)
    \/ \E u \in Tenants, i \in IbitIds : DeleteIbit(u, i)
    \/ \E u \in Tenants, i \in IbitIds : WebDeleteIbit(u, i)

SpecIngest == Init /\ [][IngestNext]_vars

(***************************************************************************)
(* The claims.                                                             *)
(***************************************************************************)
Distinct(s) == \A i, j \in 1..Len(s) : s[i] = s[j] => i = j

\* C1: after a successful merge of A into B every note that was linked to A
\* before the merge is linked to B, and no note is linked to B more than once.
C1_MergePreservesCoverage ==
    (last.op = "merge_entity" /\ last.status = "merged") =>
        /\ \A n \in last.moved : Count(ibit_entities, <<n, last.tgt>>) >= 1
        /\ \A n \in DOMAIN ibits : Count(ibit_entities, <<n, last.tgt>>) <= 1

\* C2: no entity that is the redirect target of another entity has a redirect
\* pointer itself (no alias chains, no cycles).
C2_NoAliasChains ==
    \A e \in DOMAIN entities :
        entities[e].linked_to_id # Null =>
            entities[entities[e].linked_to_id].linked_to_id = Null

\* C3: a tenant never holds two Category rows, two Entity rows or two Date
\* rows with the same normalized value.
C3_UniquePerTenant ==
    /\ \A i, j \in DOMAIN categories :
          (/\ categories[i].user_id = categories[j].user_id
           /\ categories[i].user_id \in Tenants
           /\ NormCategory(categories[i].name) = NormCategory(categories[j].name))
          => i = j
    /\ \A i, j \in DOMAIN entities :
          (/\ entities[i].user_id = entities[j].user_id
           /\ entities[i].user_id \in Tenants
           /\ NormEntity(entities[i].name) = NormEntity(entities[j].name))
          => i = j
    /\ \A i, j \in DOMAIN dates :
          (/\ dates[i].user_id = dates[j].user_id
           /\ dates[i].user_id \in Tenants
           /\ NormDate(dates[i].date) = NormDate(dates[j].date))
          => i = j

\* The normalized candidates of the last ingestion, per kind.
Candidates(request, kind) ==
    LET raw == CASE kind = "category" -> Normalized(kind, request.cats)
                 [] kind = "entity" -> Normalized(kind, request.ents)
                 [] kind = "date" -> Normalized(kind, request.dts)
    IN Range(raw) \ {<<>>}

\* The rows of a table that hold the value v for a tenant.
RowsOf(kind, tbl, user, v) ==
    {i \in DOMAIN tbl : TagValue(kind, tbl[i]) = v /\ tbl[i].user_id = user}

ResolvedOnce(kind, before, after, links, request) ==
    \A v \in Candidates(request, kind) :
        LET known == RowsOf(kind, before, request.user, v)
            now   == RowsOf(kind, after, request.user, v)
        IN /\ known # {} => now = known
           /\ Cardinality(now) <= 1
           /\ request.status = "stored" =>
                 \E r \in now : <<request.ibit, r>> \in DOMAIN links

AllKnown(kind, before, request) ==
    \A v \in Candidates(request, kind) :
        RowsOf(kind, before, request.user, v) # {}

NewValues(kind, before, request) ==
    {v \in Candidates(request, kind) : RowsOf(kind, before, request.user, v) = {}}

\* The extraction of the last ingestion failed: no answer, an answer that is
\* no object, or an object with null for one of its lists.
ExtractionFailed(request) ==
    \/ request.llm \in {"no_client", "raises"}
    \/ request.metadata # "object"
    \/ \E key \in {"categories", "entities", "dates"} :
          key \in request.keys /\ key \in request.nulls

\* C4: tag resolution is idempotent.  In an ingestion whose extraction gave
\* an object with lists, a candidate whose (tenant, kind, normalized value) has a row
\* resolves to that row, a candidate met twice resolves to one row, and one
\* row per new value is created; an ingestion all of whose candidates are
\* known succeeds and creates no row.
C4_ResolutionIdempotent ==
    [][(last'.op = "add_ibit" /\ ~ExtractionFailed(last')) =>
        /\ ResolvedOnce("category", categories, categories', ibit_categories', last')
        /\ ResolvedOnce("entity", entities, entities', ibit_entities', last')
        /\ ResolvedOnce("date", dates, dates', ibit_dates', last')
        /\ (/\ AllKnown("category", categories, last')
            /\ AllKnown("entity", entities, last')
            /\ AllKnown("date", dates, last'))
           => /\ last'.status = "stored"
              /\ UNCHANGED <<categories, entities, dates>>
        /\ last'.status = "stored" =>
              last'.created = Cardinality(NewValues("category", categories, last'))
                              + Cardinality(NewValues("entity", entities, last'))
                              + Cardinality(NewValues("date", dates, last'))
      ]_vars

\* A second ingestion with known candidates was stored and created no row.
C4_Witness ==
    /\ last.op = "add_ibit"
    /\ last.status = "stored"
    /\ last.created = 0
    /\ Len(last.cats) = 2
    /\ Candidates(last, "category") # {}

\* C5: a category, entity or date row of one tenant is never returned by a
\* lookup or listing made for another tenant.
C5_TenantIsolation ==
    \A owner \in last.found : owner # Null => owner = last.user

\* C6: each category, entity and date associated with a note belongs to the
\* tenant of the note.
C6_SameTenantAssociations ==
    /\ \A r \in DOMAIN ibit_categories :
          r[1] \in DOMAIN ibits => categories[r[2]].user_id = ibits[r[1]].user_id
    /\ \A r \in DOMAIN ibit_entities :
          r[1] \in DOMAIN ibits => entities[r[2]].user_id = ibits[r[1]].user_id
    /\ \A r \in DOMAIN ibit_dates :
          r[1] \in DOMAIN ibits => dates[r[2]].user_id = ibits[r[1]].user_id

\* The categories of the last ingestion that another tenant holds a row for.
HeldByAnotherTenant(request) ==
    {v \in Candidates(request, "category") :
        \E i \in DOMAIN categories :
            /\ categories[i].name = v
            /\ categories[i].user_id \in Tenants \ {request.user}}

\* C7: an ingestion that proposes a category another tenant already holds
\* succeeds and creates a separate row owned by the ingesting tenant.
C7_SameValueAcrossTenants ==
    (last.op = "add_ibit" /\ last.metadata = "object"
        /\ HeldByAnotherTenant(last) # {}) =>
        /\ last.status = "stored"
        /\ \A v \in HeldByAnotherTenant(last) :
              RowsOf("category", categories, last.user, v) # {}

\* C8: with no change of the notes, the quiz answers of a tenant with N notes
\* are N distinct notes before any repeat, in the web quiz (within a rotation
\* cycle) and in the bot quiz.
C8_NonRepetition ==
    \A u \in Tenants : Distinct(quiz_log[u].web) /\ Distinct(quiz_log[u].bot)

C10_EmptyMetadataFallback ==
    [][(last'.op = "add_ibit" /\ last'.llm \in {"no_client", "raises"}) =>
        LET id == last'.ibit
        IN /\ last'.status = "stored"
           /\ id \notin DOMAIN ibits
           /\ DOMAIN ibits' = DOMAIN ibits \cup {id}
           /\ ibits'[id] = [user_id |-> last'.user, text |-> last'.text,
                            source |-> NoSource]
           /\ \A n \in DOMAIN ibits : ibits'[n] = ibits[n]
           /\ TagsOf(ibit_categories', id) = {}
           /\ TagsOf(ibit_entities', id) = {}
           /\ TagsOf(ibit_dates', id) = {}
           /\ UNCHANGED <<categories, entities, dates>>
      ]_vars

\* The service failed for a tenant that has vocabulary, and the note is stored.
C10_Witness ==
    /\ last.op = "add_ibit"
    /\ last.llm = "raises"
    /\ last.status = "stored"
    /\ last.ibit \in DOMAIN ibits
    /\ \E i \in DOMAIN categories : categories[i].user_id = last.user

\* C11: whatever the outcome of the external model call (no answer, an
\* answer that is no object, a null list), add_ibit stores the note and does
\* not end in the rollback branch.
C11_ExtractionFailureNeverAborts ==
    (last.op = "add_ibit" /\ ExtractionFailed(last)) => last.status = "stored"

\* C12: an answer that lacks one of the four keys is a total extraction
\* failure: the note is stored with no tag and no source.
C12_MissingKeyIsTotalFailure ==
    (last.op = "add_ibit" /\ last.metadata = "object"
        /\ last.keys # MetadataKeys) =>
        /\ last.status = "stored"
        /\ last.ibit \in DOMAIN ibits
        /\ ibits[last.ibit].source = NoSource
        /\ TagsOf(ibit_categories, last.ibit) = {}
        /\ TagsOf(ibit_entities, last.ibit) = {}
        /\ TagsOf(ibit_dates, last.ibit) = {}

\* C13: an ingestion that fails after the extraction leaves the store as it
\* was: no note, no association and no tag row of the request is committed.
C13_IngestionAllOrNothing ==
    [][(last'.op = "add_ibit" /\ last'.status = "failed") =>
          UNCHANGED <<ibits, categories, entities, dates, ibit_categories,
                      ibit_entities, ibit_dates>>
      ]_vars

\* An ingestion failed after its category row had been added to the session.
C13_Witness ==
    /\ last.op = "add_ibit"
    /\ last.status = "failed"
    /\ last.metadata = "object"
    /\ last.cats # <<>>
    /\ \A i \in DOMAIN categories : categories[i].user_id # last.user

\* C14: merge_entity answers 'Entity not found' when the source or the
\* target name is no entity of the requesting tenant, and 'Cannot merge an
\* entity with itself' when both are the same row; either way no association
\* and no entity row changes.
C14_MergeRejections ==
    [][last'.op = "merge_entity" =>
        LET source == RowsOf("entity", entities, last'.user, last'.ents[1])
            target == RowsOf("entity", entities, last'.user, last'.ents[2])
        IN /\ (source = {} \/ target = {}) => last'.status = "not_found"
           /\ (source # {} /\ source = target) => last'.status = "self_merge"
           /\ last'.status \in {"not_found", "self_merge"} =>
                 UNCHANGED <<entities, ibit_entities>>
      ]_vars

\* A tenant asked to merge two entities that only another tenant holds.
C14_Witness ==
    /\ last.op = "merge_entity"
    /\ last.status = "not_found"
    /\ last.ents[1] # last.ents[2]
    /\ \A n \in {last.ents[1], last.ents[2]} :
          \E e \in DOMAIN entities :
              entities[e].name = n /\ entities[e].user_id # last.user

\* C15: a successful merge of A into B sets A's redirect pointer to B and
\* keeps A's row; B's pointer and every other entity row are unchanged.
C15_MergeFrame ==
    [][(last'.op = "merge_entity" /\ last'.status = "merged") =>
        /\ DOMAIN entities' = DOMAIN entities
        /\ entities'[last'.src].linked_to_id = last'.tgt
        /\ entities'[last'.src].name = entities[last'.src].name
        /\ entities'[last'.src].user_id = entities[last'.src].user_id
        /\ \A e \in DOMAIN entities : e # last'.src => entities'[e] = entities[e]
      ]_vars

\* A merge succeeded while the tenant held a third entity.
C15_Witness ==
    /\ last.op = "merge_entity"
    /\ last.status = "merged"
    /\ entities[last.src].linked_to_id = last.tgt
    /\ \E e \in DOMAIN entities : e \notin {last.src, last.tgt}

\* C16: no note is associated with an entity that redirects to another one.
C16_AliasHasNoNotes ==
    \A e \in DOMAIN entities :
        entities[e].linked_to_id # Null => IbitsOf(ibit_entities, e) = {}

\* C17: the web entity list, the home page, the graph and the bot's
\* '/list entities' answer only with entities of the tenant whose redirect
\* pointer is empty.
C17_ListingsShowCanonicalOnly ==
    last.status = "listed" =>
        \A row \in last.listed :
            row[1] = "entity" =>
                /\ entities[row[2]].user_id = last.user
                /\ entities[row[2]].linked_to_id = Null

\* C18: after an edit that sets the categories field of a note (for instance
\* to "a, b"), the note holds exactly one category per distinct trimmed,
\* lowercased, non-empty name of the field; every category it held before and
\* the field does not name is detached, and its row stays in the table.
C18_EditRoundTrip ==
    [][(last'.op = "web_edit" /\ last'.status = "updated") =>
        LET names == {NormCategory(last'.cats[i]) : i \in 1..Len(last'.cats)} \ {<<>>}
            before == TagsOf(ibit_categories, last'.ibit)
            after == TagsOf(ibit_categories', last'.ibit)
        IN /\ after \subseteq DOMAIN categories'
           /\ {categories'[t].name : t \in after} = names
           /\ Cardinality(after) = Cardinality(names)
           /\ \A t \in after : categories'[t].user_id = last'.user
           /\ \A t \in before :
                 /\ t \in DOMAIN categories'
                 /\ categories'[t] = categories[t]
                 /\ categories[t].name \notin names => t \notin after
      ]_vars

\* The categories of a note that held "c" were set to "a, b".
C18_Witness ==
    /\ last.op = "web_edit"
    /\ last.status = "updated"
    /\ last.cats = << <<"a">>, <<" ", "b">> >>
    /\ {categories[t].name : t \in TagsOf(ibit_categories, last.ibit)}
          = {<<"a">>, <<"b">>}
    /\ \E t \in DOMAIN categories :
          /\ <<"category", t>> \in last.held
          /\ categories[t].name = <<"c">>
          /\ t \notin TagsOf(ibit_categories, last.ibit)

\* C19: a deletion that commits, by the bot or by the web page, removes the
\* note and every association row of the note; every category, entity and
\* date row stays as it was, and so do the other notes and their
\* association rows.
C19_DeleteFrame ==
    [][(last'.op \in {"delete_ibit", "web_delete"} /\ last'.status = "deleted") =>
        /\ last'.ibit \in DOMAIN ibits
        /\ DOMAIN ibits' = DOMAIN ibits \ {last'.ibit}
        /\ \A i \in DOMAIN ibits' : ibits'[i] = ibits[i]
        /\ UNCHANGED <<categories, entities, dates>>
        /\ \A pair \in {<<ibit_categories, ibit_categories'>>,
                         <<ibit_entities, ibit_entities'>>,
                         <<ibit_dates, ibit_dates'>>} :
              /\ DOMAIN pair[2] = {r \in DOMAIN pair[1] : r[1] # last'.ibit}
              /\ \A r \in DOMAIN pair[2] : pair[2][r] = pair[1][r]
      ]_vars

\* A note with tags was deleted while another note exists: its category row
\* is still there and no note holds it.
C19_Witness ==
    /\ last.op \in {"delete_ibit", "web_delete"}
    /\ last.status = "deleted"
    /\ DOMAIN ibits # {}
    /\ \E t \in DOMAIN categories :
          /\ <<"category", t>> \in last.held
          /\ IbitsOf(ibit_categories, t) = {}
    /\ \E r \in DOMAIN ibit_entities : r[1] \in DOMAIN ibits

\* The text of the line of the response that carries the label, if any.
TextOf(response, label) ==
    {response[i].text : i \in {j \in 1..Len(response) : response[j].label = label}}

\* C20: the confirmation of a stored ingestion starts with the marker line;
\* it has a categories, entities or dates line exactly when the candidate
\* list of that kind is non-empty, and a source line exactly when a source
\* was given; each line appears once and lists the candidates as the
\* extraction gave them, before trimming, joined with ", ".
C20_ConfirmationLines ==
    (last.op = "add_ibit" /\ last.status = "stored") =>
        LET r == last.response
            Labels == {r[i].label : i \in 1..Len(r)}
            source == ibits[last.ibit].source
            Comma == <<",", " ">>
        IN /\ Len(r) >= 1
           /\ r[1].label = "stored"
           /\ Labels \subseteq {"stored", "categories", "entities", "dates", "source"}
           /\ Cardinality(Labels) = Len(r)
           /\ "categories" \in Labels <=> last.cats # <<>>
           /\ "entities" \in Labels <=> last.ents # <<>>
           /\ "dates" \in Labels <=> last.dts # <<>>
           /\ "source" \in Labels <=> source # NoSource
           /\ TextOf(r, "categories") \subseteq {JoinStr(last.cats, Comma)}
           /\ TextOf(r, "entities") \subseteq {JoinStr(last.ents, Comma)}
           /\ TextOf(r, "dates") \subseteq {JoinStr(last.dts, Comma)}
           /\ TextOf(r, "source") \subseteq {source}

\* A note was stored whose first category candidate needed trimming and
\* lowercasing: the row is "f", the summary shows the candidate as given.
C20_Witness ==
    /\ last.op = "add_ibit"
    /\ last.status = "stored"
    /\ last.cats = << <<" ", "F">>, <<"f">> >>
    /\ TextOf(last.response, "categories") = {<<" ", "F", ",", " ", "f">>}
    /\ TextOf(last.response, "source") = {<<"N">>}
    /\ \E t \in TagsOf(ibit_categories, last.ibit) : categories[t].name = <<"f">>

\* Whether two lists hold the same elements, each as often.
Permutation(s, t) ==
    /\ Len(s) = Len(t)
    /\ \A i \in 1..Len(s) : Occurrences(s, s[i]) = Occurrences(t, s[i])

\* C21: for an answer with all three keys, options O and an index i within
\* 0 .. len(O) - 1, the generator returns choices that are a permutation of
\* O and an index at which the choices hold O[i]; for an answer with a
\* missing key or an index outside that range it returns None.
C21_ShuffleKeepsCorrectAnswer ==
    (/\ last.op = "generate_quiz_question_with_ai"
     /\ last.llm = "json"
     /\ last.asked.type = "object") =>
        LET O == last.asked.options
            i == last.asked.correct_index
        IN IF QuizKeys \subseteq last.asked.keys /\ i \in 0..(Len(O) - 1)
           THEN /\ last.quiz.type = "dict"
                /\ Permutation(last.quiz.choices, O)
                /\ ~IndexError(O, last.quiz.correct_index)
                /\ last.quiz.correct_index >= 0
                /\ Item(last.quiz.choices, last.quiz.correct_index) = O[i + 1]
           ELSE last.quiz = None

\* Two rows of the table belong to the same tenant and hold the same value.
TwoRows(kind, tbl) ==
    \E i, j \in DOMAIN tbl :
        /\ i # j
        /\ tbl[i].user_id = tbl[j].user_id
        /\ TagValue(kind, tbl[i]) = TagValue(kind, tbl[j])

\* C22: a request that looked a value up before another request of the tenant
\* committed it inserts the value again when it commits, so that the tenant
\* holds two rows for the value.
C22_RaceInsertsTwice ==
    [][(last'.op = "add_ibit" /\ last'.status \in {"stored", "failed"}
            /\ last'.stale # {}) =>
          \/ TwoRows("category", categories')
          \/ TwoRows("entity", entities')
          \/ TwoRows("date", dates')
      ]_vars

\* C22, amended: such a request fails at its commit, on the UNIQUE constraint
\* of the value column, and leaves the store unchanged; no tenant ever holds
\* two rows for one value.
C22_RaceRejectedAtCommit ==
    [][/\ (last'.op = "add_ibit" /\ last'.status \in {"stored", "failed"}
              /\ last'.stale # {}) =>
            /\ last'.status = "failed"
            /\ UNCHANGED <<ibits, categories, entities, dates, ibit_categories,
                           ibit_entities, ibit_dates>>
       /\ ~TwoRows("category", categories')
       /\ ~TwoRows("entity", entities')
       /\ ~TwoRows("date", dates')
      ]_vars

\* A request failed whose category had been stored by another request after
\* its lookup.
C22_Witness ==
    /\ last.op = "add_ibit"
    /\ last.status = "failed"
    /\ <<"category", <<"f">> >> \in last.stale
    /\ \E i \in DOMAIN categories :
          categories[i].name = <<"f">> /\ categories[i].user_id = last.user

\* The date `coarse` is the year or the month of the date `fine`.
Coarser(coarse, fine) ==
    /\ Len(coarse) < Len(fine)
    /\ SubSeq(fine, 1, Len(coarse)) = coarse
    /\ fine[Len(coarse) + 1] = "-"

\* C23: no note is attached to a date together with the month or the year
\* that contains it, whatever list of dates the extraction gave.
C23_MostPreciseDateOnly ==
    \A i \in DOMAIN ibits :
        \A c, f \in TagsOf(ibit_dates, i) : ~Coarser(dates[c].date, dates[f].date)

\* Nobody holds the code in the table.
Unheld(tbl, code) == \A u \in DOMAIN tbl : tbl[u].linking_code # code

\* C24: a link that succeeds clears the code; a link attempt, by any Telegram
\* identity, with a code that nobody holds fails with 'Invalid or expired
\* linking code' and changes nothing; a new code for a user leaves the
\* user's previous code with nobody.
C24_CodeIsSingleUse ==
    [][/\ (last'.op = "link_telegram_account" /\ last'.status = "linked") =>
             Unheld(users', last'.code)
       /\ (last'.op = "link_telegram_account" /\ Unheld(users, last'.code)) =>
             /\ last'.status = "invalid_code"
             /\ UNCHANGED users
       /\ (last'.op = "create_linking_code" /\ last'.status = "created") =>
             \/ users[last'.user].linking_code = <<>>
             \/ Unheld(users', users[last'.user].linking_code)
      ]_vars

\* C24, amended: as above, but the attempt with a code that nobody holds fails
\* with 'Invalid or expired linking code' only when the Telegram identity is
\* linked to no user; an identity that is linked is told so.  Either way no
\* user row changes.
C24_CodeIsSingleUseForUnlinked ==
    [][/\ (last'.op = "link_telegram_account" /\ last'.status = "linked") =>
             Unheld(users', last'.code)
       /\ (last'.op = "link_telegram_account" /\ Unheld(users, last'.code)) =>
             /\ last'.status =
                    IF \E u \in DOMAIN users :
                           users[u].telegram_user_id = last'.telegram
                    THEN "already_linked" ELSE "invalid_code"
             /\ UNCHANGED users
       /\ (last'.op = "create_linking_code" /\ last'.status = "created") =>
             \/ users[last'.user].linking_code = <<>>
             \/ Unheld(users', users[last'.user].linking_code)
      ]_vars

\* A code that one identity linked with was presented again by another
\* identity and refused.
C24_Witness ==
    /\ last.op = "link_telegram_account"
    /\ last.status = "invalid_code"
    /\ Unheld(users, last.code)
    /\ \E u \in DOMAIN users :
          /\ users[u].redeemed = last.code
          /\ users[u].telegram_user_id # <<>>
          /\ users[u].telegram_user_id # last.telegram

\* C25: no Telegram identity is linked to two users, and a link attempt from
\* an identity that is linked changes no user row, so that the code it
\* presented stays valid.
C25_OneUserPerTelegramIdentity ==
    [][/\ \A u, v \in DOMAIN users' :
             (/\ users'[u].telegram_user_id # <<>>
              /\ users'[u].telegram_user_id = users'[v].telegram_user_id) => u = v
       /\ (/\ last'.op = "link_telegram_account"
           /\ \E u \in DOMAIN users : users[u].telegram_user_id = last'.telegram) =>
             /\ last'.status = "already_linked"
             /\ UNCHANGED users
      ]_vars

\* A linked identity presented the valid code of a user, and the code is
\* still with that user.
C25_Witness ==
    /\ last.op = "link_telegram_account"
    /\ last.status = "already_linked"
    /\ \E u \in DOMAIN users : users[u].linking_code = last.code
    /\ \E u \in DOMAIN users : users[u].telegram_user_id = last.telegram

\* C26: a well-formed /edit, /addcat or /delete that names a note of
\* another tenant answers that the note was not found and changes no row
\* and no association.
C26_NoteCommandsAreTenantScoped ==
    [][(/\ last'.op \in {"edit_ibit", "add_categories", "delete_ibit"}
        /\ last'.status # "usage"
        /\ last'.ibit \in DOMAIN ibits
        /\ ibits[last'.ibit].user_id # last'.user) =>
          /\ last'.status = "not_found"
          /\ UNCHANGED <<ibits, categories, entities, dates, ibit_categories,
                         ibit_entities, ibit_dates, quiz_progress, users>>
      ]_vars

\* A tenant asked to delete a note of another tenant, and the note and its
\* category are still there.
C26_Witness ==
    /\ last.op = "delete_ibit"
    /\ last.status = "not_found"
    /\ last.ibit \in DOMAIN ibits
    /\ ibits[last.ibit].user_id # last.user
    /\ TagsOf(ibit_categories, last.ibit) # {}

\* C27: a note that add_ibit has stored has at most one association row
\* with each tag, also when two of its candidates resolve to the same tag.
C27_LinkedAtMostOnce ==
    (last.op = "add_ibit" /\ last.status = "stored") =>
        \A bag \in {ibit_categories, ibit_entities, ibit_dates} :
            \A r \in DOMAIN bag : r[1] = last.ibit => bag[r] <= 1

\* C28: a quiz request that returns no question (no client, no note of the
\* tenant, or a question that could not be generated) leaves the table
\* quiz_progress as it was.
C28_NoQuestionNoProgress ==
    [][(/\ last'.op = "get_quiz"
        /\ last'.status \in {"no_client", "no_ibits", "generation_failed"}) =>
          UNCHANGED quiz_progress
      ]_vars

\* C29: the progress a quiz response reports satisfies 1 <= current <= total,
\* where total is the number of notes the tenant has.
C29_ProgressWithinTotal ==
    (last.op = "get_quiz" /\ last.status = "question") =>
        /\ last.progress.total = Cardinality(IbitIdsOf(last.user))
        /\ 1 <= last.progress.current
        /\ last.progress.current <= last.progress.total

\* C30: the merge targets and the aliases shown on the page of an entity are
\* entities of the tenant who views the page.
C30_EntityPageShowsOwnEntities ==
    (last.op = "view_entity" /\ last.status = "viewed") =>
        \A row \in last.listed : entities[row[2]].user_id = last.user

====
